---- MODULE Spec2Model ----
(***************************************************************************)
(* Model of the simulated virtual-kubelet provider (providers/sim): the    *)
(* in-memory pod registry (podMap), the admission decision of CreatePod,   *)
(* the status derivation of GetPodStatus and the time-phased simSpec.      *)
(*                                                                         *)
(* Time is counted in clock ticks of half a second, so that the truncation *)
(* int32(now.Sub(startTime).Seconds()) is visible.                         *)
(***************************************************************************)
EXTENDS Integers, Sequences, FiniteSets, TLC

\* ------------------------------------------------------------------ bounds

\* The clock stops advancing at MaxClock ticks.
MaxClock == 2

\* ------------------------------------------------------------------- time

\* time.Second, in ticks of the model's clock (a tick is half a second).
Second == 2

\* ------------------------------------------------------- int32 arithmetic

MaxInt32 == 2147483647
MinInt32 == (-MaxInt32) - 1

\* Go's int32 addition: wraps around modulo 2^32 (computed without ever
\* leaving the 32-bit range, which is also the range of TLC's integers).
Add32(a, b) ==
  IF a > 0 /\ b > 0 /\ a > MaxInt32 - b
    THEN (a + MinInt32) + (b + MinInt32)
    ELSE IF a < 0 /\ b < 0 /\ a < MinInt32 - b
      THEN (a - MinInt32) + (b - MinInt32)
      ELSE a + b

\* Conversion of a duration (in ticks) to whole seconds, as
\* int32(d.Seconds()): the fraction is dropped, rounding toward zero.
TruncSeconds(d) ==
  IF d >= 0 THEN d \div Second ELSE -((-d) \div Second)

\* ------------------------------------------------------ resource.Quantity

\* The decimal numerals and the unit suffixes the model's quantity strings
\* are made of.  A suffix is either the milli unit or a multiplier.
Numerals ==
  [n \in {"0", "1", "2", "256", "500", "512", "1500"} |->
     CASE n = "0" -> 0 [] n = "1" -> 1 [] n = "2" -> 2 [] n = "256" -> 256
       [] n = "500" -> 500 [] n = "512" -> 512 [] n = "1500" -> 1500]

Suffixes ==
  [s \in {"", "m", "Ki", "Mi", "Gi"} |->
     CASE s = "" -> 1 [] s = "m" -> 1 [] s = "Ki" -> 1024
       [] s = "Mi" -> 1048576 [] s = "Gi" -> 1073741824]

\* resource.ParseQuantity: a numeral followed by a suffix, anything else is
\* an error.  A quantity is kept as a number of units, the unit being one
\* or one thousandth.
\* The table holds the strings whose value the model's integers can hold.
QuantityStrings ==
  UNION {{n \o s : n \in {x \in DOMAIN Numerals : Numerals[x] <= MaxInt32 \div Suffixes[s]}} :
         s \in DOMAIN Suffixes}

Quantities ==
  [str \in QuantityStrings |->
     LET n == CHOOSE n \in DOMAIN Numerals : \E s \in DOMAIN Suffixes : str = n \o s
         s == CHOOSE s \in DOMAIN Suffixes : str = n \o s
     IN [ok |-> TRUE, num |-> Numerals[n] * Suffixes[s], milli |-> (s = "m")]]

ParseQuantity(str) ==
  IF str \in DOMAIN Quantities
    THEN Quantities[str]
    ELSE [ok |-> FALSE, num |-> 0, milli |-> FALSE]

\* Quantity.MilliValue()
MilliValue(q) == IF q.milli THEN q.num ELSE q.num * 1000

\* Quantity.Value(): rounds a fractional quantity up
Value(q) == IF q.milli THEN (q.num + 999) \div 1000 ELSE q.num

\* --------------------------------------------------------------- simResource

ZeroResource == [milliCPU |-> 0, memory |-> 0, gpu |-> 0]

\* simResource.add
add(r, rhs) ==
  [milliCPU |-> r.milliCPU + rhs.milliCPU,
   memory   |-> r.memory + rhs.memory,
   gpu      |-> r.gpu + rhs.gpu]

\* spec: "Reject if projectedDemand.cpu > capacity.cpu OR
\* projectedDemand.memory > capacity.memory OR (capacity declares a GPU limit
\* AND projectedDemand.gpu exceeds it)"; the pod-count test is CreatePod's own.
isOverCapacity(req, cap) ==
  \/ req.milliCPU > MilliValue(cap["cpu"])
  \/ req.memory > Value(cap["memory"])
  \/ ("nvidia.com/gpu" \in DOMAIN cap /\ req.gpu > Value(cap["nvidia.com/gpu"]))

\* ------------------------------------------------------------- the v1.Pod

\* A ResourceList maps resource names to quantities; Cpu() and Memory() give
\* the zero quantity for a name that is absent.
ZeroQuantity == [ok |-> TRUE, num |-> 0, milli |-> FALSE]
Cpu(list) == IF "cpu" \in DOMAIN list THEN list["cpu"] ELSE ZeroQuantity
Memory(list) == IF "memory" \in DOMAIN list THEN list["memory"] ELSE ZeroQuantity
Pods(list) == IF "pods" \in DOMAIN list THEN list["pods"] ELSE ZeroQuantity

\* The resource request of a pod: the sum of its containers' limits.
RECURSIVE sumLimits(_, _)
sumLimits(containers, result) ==
  IF containers = <<>> THEN result
  ELSE LET limits == Head(containers)
           gpu == IF "nvidia.com/gpu" \in DOMAIN limits
                    THEN Value(limits["nvidia.com/gpu"]) ELSE 0
       IN sumLimits(Tail(containers),
                    [milliCPU |-> result.milliCPU + MilliValue(Cpu(limits)),
                     memory   |-> result.memory + Value(Memory(limits)),
                     gpu      |-> result.gpu + gpu])

\* getResourceReq, had it taken the first phase of the pod's simSpec.
getResourceReq_phaseZero(pod) ==
  IF pod.simSpec.phases = <<>> THEN ZeroResource
  ELSE LET phase == pod.simSpec.phases[1]
       IN [milliCPU |-> MilliValue(ParseQuantity(phase.cpu)),
           memory   |-> Value(ParseQuantity(phase.memory)),
           gpu      |-> phase.gpu]

getResourceReq(pod) == sumLimits(pod.containers, ZeroResource)

\* ---------------------------------------------------------------- errors

NoError == [msg |-> "nil", arg |-> ""]
Errorf(msg, arg) == [msg |-> msg, arg |-> arg]

\* -------------------------------------------------------------- buildKey

buildKeyFromNames(namespace, name) ==
  [key |-> namespace \o "-" \o name, err |-> NoError]

buildKey(pod) ==
  IF pod.namespace = "" THEN [key |-> "", err |-> Errorf("pod namespace not found", "")]
  ELSE IF pod.name = "" THEN [key |-> "", err |-> Errorf("pod name not found", "")]
  ELSE buildKeyFromNames(pod.namespace, pod.name)

\* ------------------------------------------------------------ parseSimSpec

\* The "simSpec" annotation of a pod is absent, or a text that json.Unmarshal
\* cannot decode, or the JSON list of phases {seconds, cpu, memory, gpu}.
\* parsePhases, had the loop gone on to the next phase (continue) where it
\* returns the error of resource.ParseQuantity.
RECURSIVE parsePhases_skipsInvalid(_, _)
parsePhases_skipsInvalid(simSpecJSON, simSpec) ==
  IF simSpecJSON = <<>> THEN [spec |-> simSpec, err |-> NoError]
  ELSE LET phase == Head(simSpecJSON)
           cpu == ParseQuantity(phase.cpu)
           memory == ParseQuantity(phase.memory)
       IN IF ~cpu.ok \/ ~memory.ok
            THEN parsePhases_skipsInvalid(Tail(simSpecJSON), simSpec)
            ELSE parsePhases_skipsInvalid(Tail(simSpecJSON),
                   Append(simSpec,
                     [seconds |-> phase.seconds,
                      resource |-> [milliCPU |-> MilliValue(cpu),
                                    memory |-> Value(memory),
                                    gpu |-> phase.gpu]]))

\* parsePhases, had the loop stopped (break) where it returns the error of
\* resource.ParseQuantity: the plan read so far is returned.
parsePhases_breaksAtInvalid(simSpecJSON, simSpec) ==
  LET valid(i) == /\ ParseQuantity(simSpecJSON[i].cpu).ok
                  /\ ParseQuantity(simSpecJSON[i].memory).ok
      n == IF \A i \in DOMAIN simSpecJSON : valid(i) THEN Len(simSpecJSON)
           ELSE (CHOOSE i \in DOMAIN simSpecJSON :
                   ~valid(i) /\ \A j \in 1..(i - 1) : valid(j)) - 1
  IN [spec |-> simSpec \o
                 [i \in 1..n |->
                    [seconds |-> simSpecJSON[i].seconds,
                     resource |->
                       [milliCPU |-> MilliValue(ParseQuantity(simSpecJSON[i].cpu)),
                        memory |-> Value(ParseQuantity(simSpecJSON[i].memory)),
                        gpu |-> simSpecJSON[i].gpu]]],
      err |-> NoError]

RECURSIVE parsePhases(_, _)
parsePhases(simSpecJSON, simSpec) ==
  IF simSpecJSON = <<>> THEN [spec |-> simSpec, err |-> NoError]
  ELSE LET phase == Head(simSpecJSON)
           cpu == ParseQuantity(phase.cpu)
           mem == ParseQuantity(phase.memory)
       IN IF ~cpu.ok
            THEN [spec |-> <<>>, err |-> Errorf("Invalid CPU value", phase.cpu)]
          ELSE IF ~mem.ok
            THEN [spec |-> <<>>, err |-> Errorf("Invalid memory value", phase.memory)]
          ELSE parsePhases(Tail(simSpecJSON),
                 Append(simSpec,
                   [seconds  |-> phase.seconds,
                    resource |-> [milliCPU |-> MilliValue(cpu),
                                  memory   |-> Value(mem),
                                  gpu      |-> phase.gpu]]))

parseSimSpec(pod) ==
  IF ~pod.simSpec.defined
    THEN [spec |-> <<>>, err |-> Errorf("simSpec not defined", "")]
  ELSE IF ~pod.simSpec.decodable
    THEN [spec |-> <<>>, err |-> Errorf("json: cannot unmarshal", "")]
  ELSE parsePhases(pod.simSpec.phases, <<>>)

\* ------------------------------------------------------------------ simPod

simPodOk == 0
simPodOverCapacity == 1

RECURSIVE usageFrom(_, _, _)
usageFrom(spec, passedSeconds, phaseSecondsAcc) ==
  IF spec = <<>> THEN ZeroResource
  ELSE IF passedSeconds < Add32(phaseSecondsAcc, Head(spec).seconds)
    THEN Head(spec).resource
    ELSE usageFrom(Tail(spec), passedSeconds, Add32(phaseSecondsAcc, Head(spec).seconds))

\* simPod.resourceUsage
resourceUsage(p, passedSeconds) == usageFrom(p.spec, passedSeconds, 0)

RECURSIVE secondsFrom(_, _)
secondsFrom(spec, phaseSecondsTotal) ==
  IF spec = <<>> THEN phaseSecondsTotal
  ELSE secondsFrom(Tail(spec), Add32(phaseSecondsTotal, Head(spec).seconds))

\* simPod.totalSeconds
totalSeconds(p) == secondsFrom(p.spec, 0)

\* isTerminated, had it compared with == for >=.
isTerminated_onlyAtEnd(p, passedSeconds) == passedSeconds = totalSeconds(p)

\* isTerminated, had it compared with > for >=.
isTerminated_late(p, passedSeconds) == passedSeconds > totalSeconds(p)

\* simPod.isTerminated
isTerminated(p, passedSeconds) == passedSeconds >= totalSeconds(p)

\* passedSecondsAt, had the subtraction been pod.startTime.Sub(now).
passedSecondsAt_reversed(now, p) == TruncSeconds(p.startTime - now)

\* int32(now.Sub(pod.startTime).Seconds())
passedSecondsAt(now, p) == TruncSeconds(now - p.startTime)

\* ------------------------------------------------------------------ inputs

\* Quantities of the container limits, as the API server has parsed them.
Q(str) == ParseQuantity(str)

PhaseJSON(seconds, cpu, memory, gpu) ==
  [seconds |-> seconds, cpu |-> cpu, memory |-> memory, gpu |-> gpu]

NoAnnotation == [defined |-> FALSE, decodable |-> FALSE, phases |-> <<>>]
Undecodable == [defined |-> TRUE, decodable |-> FALSE, phases |-> <<>>]
Annotation(phases) == [defined |-> TRUE, decodable |-> TRUE, phases |-> phases]

Pod(namespace, name, containers, simSpec) ==
  [namespace |-> namespace, name |-> name,
   containers |-> containers, simSpec |-> simSpec]

LimitsA == ("cpu" :> Q("500m")) @@ ("memory" :> Q("256"))
LimitsC == ("memory" :> Q("1Ki")) @@ ("nvidia.com/gpu" :> Q("1"))

\* one container of 500m/256, running two phases of one second each
PodA(ns, name) ==
  Pod(ns, name, <<LimitsA>>,
      Annotation(<<PhaseJSON(1, "500m", "256", 0), PhaseJSON(1, "1", "512", 1)>>))
\* two containers of 500m/256 each, running one phase of one second that
\* uses less cpu than the limits allow
PodB(ns, name) ==
  Pod(ns, name, <<LimitsA, LimitsA>>, Annotation(<<PhaseJSON(1, "500m", "512", 0)>>))
\* one container of 1Ki memory and one GPU, with the empty list of phases
PodC(ns, name) == Pod(ns, name, <<LimitsC>>, Annotation(<<>>))
\* one container of 500m/256, running one phase of one second whose
\* "nvidia.com/gpu" is -1
PodNegGPU(ns, name) ==
  Pod(ns, name, <<LimitsA>>, Annotation(<<PhaseJSON(1, "500m", "256", -1)>>))
\* pods whose simSpec does not parse
PodNoSpec(ns, name) == Pod(ns, name, <<LimitsA>>, NoAnnotation)
PodUndecodable(ns, name) == Pod(ns, name, <<LimitsA>>, Undecodable)
PodBadQuantity(ns, name) ==
  Pod(ns, name, <<LimitsA>>,
      Annotation(<<PhaseJSON(1, "500m", "256", 0), PhaseJSON(1, "notaquantity", "1Gx", 0)>>))

\* (namespace, name) pairs the orchestrator calls with; the last two have
\* an empty namespace or an empty name.
GoodNames == {<<"ns", "a">>, <<"ns", "b">>}
BadNames == {<<"", "a">>, <<"ns", "">>}
AllNames == GoodNames \cup BadNames

\* The pod objects live on the heap; the provider is handed, and keeps,
\* pointers (*v1.Pod) to them.  A pointer is written <<kind, namespace, name>>.
Kinds == {"A", "B", "C", "NoSpec", "Undecodable", "BadQuantity"}

\* Two (namespace, name) pairs with a hyphen, as the names of Kubernetes
\* may have: the pod a-b of the namespace ns, the pod b of the namespace ns-a.
HyphenNames == {<<"ns", "a-b">>, <<"ns-a", "b">>}

\* The heap also holds pods of the kind NegGPU, and pods named ns/c or with
\* a hyphen in their names.
HeapKinds == Kinds \cup {"NegGPU"}
HeapNames == AllNames \cup {<<"ns", "c">>} \cup HyphenNames

Heap ==
  [ptr \in HeapKinds \X HeapNames |->
     LET ns == ptr[2][1]
         name == ptr[2][2]
     IN CASE ptr[1] = "A" -> PodA(ns, name)
          [] ptr[1] = "B" -> PodB(ns, name)
          [] ptr[1] = "C" -> PodC(ns, name)
          [] ptr[1] = "NoSpec" -> PodNoSpec(ns, name)
          [] ptr[1] = "Undecodable" -> PodUndecodable(ns, name)
          [] ptr[1] = "BadQuantity" -> PodBadQuantity(ns, name)
          [] ptr[1] = "NegGPU" -> PodNegGPU(ns, name)]

Deref(ptr) == Heap[ptr]

CreateInputs == (Kinds \X GoodNames) \cup ({"A"} \X BadNames)

UpdateInputs == {"B"} \X AllNames

DeleteInputs == {"A"} \X AllNames

\* The provider's configuration (Config), as loadConfig leaves it.
Config == [CPU |-> "1500m", Memory |-> "1Ki", GPU |-> "1", Pods |-> "2"]

\* Provider.Capacity
Capacity ==
  ("cpu" :> ParseQuantity(Config.CPU)) @@ ("memory" :> ParseQuantity(Config.Memory))
  @@ ("nvidia.com/gpu" :> ParseQuantity(Config.GPU)) @@ ("pods" :> ParseQuantity(Config.Pods))

\* ------------------------------------------------------------------- state

VARIABLES
  pods,                \* Provider.pods: the podMap, key -> simPod
  totalResourceUsage,  \* Provider.totalResourceUsage, written by updateNode
  clock,               \* the wall clock (time.Now()), in ticks
  ret,                 \* the call that returned last: its arguments and results
                       \* (of CreatePod: the figures it held against the capacity)
  pc, arg, loc,        \* per goroutine: position, pod argument, locals
  node                 \* the updateNode goroutine: position and its `now`

vars == <<pods, totalResourceUsage, clock, ret, pc, arg, loc, node>>

Threads == {"g1", "g2"}

NoPod == <<"nil", <<"", "">>>>
NoLocals == [nil |-> TRUE]
NoValue == [nil |-> TRUE]

Returned(op, namespace, name, err, val) ==
  [op |-> op, namespace |-> namespace, name |-> name, err |-> err, val |-> val]

Init ==
  /\ pods = <<>>
  /\ totalResourceUsage = ZeroResource
  /\ clock = 0
  /\ ret = Returned("none", "", "", NoError, NoValue)
  /\ pc = [t \in Threads |-> "idle"]
  /\ arg = [t \in Threads |-> NoPod]
  /\ loc = [t \in Threads |-> NoLocals]
  /\ node = [pc |-> "wait", now |-> 0]

\* ------------------------------------------------------------------ podMap

\* podMap.load
load(m, key) ==
  IF key \in DOMAIN m THEN [pod |-> m[key], ok |-> TRUE] ELSE [pod |-> NoPod, ok |-> FALSE]

\* podMap.store
store(m, key, pod) == [k \in DOMAIN m \cup {key} |-> IF k = key THEN pod ELSE m[k]]

\* podMap.delete, had it dropped the map.
delete_all(m, key) == <<>>

\* podMap.delete
delete(m, key) == [k \in DOMAIN m \ {key} |-> m[k]]

\* listPods, had it left out the simPods over the capacity.
listPods_okOnly(m) ==
  LET ok == {k \in DOMAIN m : m[k].status = simPodOk}
      payloads == {m[k].pod : k \in ok}
  IN [p \in payloads |-> Cardinality({k \in ok : m[k].pod = p})]

\* podMap.listPods: the payloads, in no particular order (a bag)
listPods(m) ==
  LET payloads == {m[k].pod : k \in DOMAIN m}
  IN [p \in payloads |-> Cardinality({k \in DOMAIN m : m[k].pod = p})]

\* podMap.foreach with the visitor of totalResourceReq
RECURSIVE foreachReq(_, _, _, _)
foreachReq(m, keys, now, resourceReq) ==
  IF keys = {} THEN resourceReq
  ELSE LET key == CHOOSE k \in keys : TRUE
           pod == m[key]
           passedSeconds == passedSecondsAt(now, pod)
       IN foreachReq(m, keys \ {key}, now,
            IF pod.status = simPodOk /\ ~isTerminated(pod, passedSeconds)
              THEN add(resourceReq, getResourceReq(Deref(pod.pod)))
              ELSE resourceReq)

\* totalResourceReq, had the visitor dropped the result of resourceReq.add.
totalResourceReq_addDiscarded(m, now) == ZeroResource

\* The visitor of totalResourceReq, had it added the usage of the pod's plan
\* at the pod's own elapsed time.
RECURSIVE foreachUsage(_, _, _, _)
foreachUsage(m, keys, now, resourceReq) ==
  IF keys = {} THEN resourceReq
  ELSE LET key == CHOOSE k \in keys : TRUE
           pod == m[key]
           passedSeconds == passedSecondsAt(now, pod)
       IN foreachUsage(m, keys \ {key}, now,
            IF pod.status = simPodOk /\ ~isTerminated(pod, passedSeconds)
              THEN add(resourceReq, resourceUsage(pod, passedSeconds))
              ELSE resourceReq)

\* totalResourceReq, had it added pod.resourceUsage(passedSeconds) for
\* getResourceReq(pod.pod).
totalResourceReq_byUsage(m, now) == foreachUsage(m, DOMAIN m, now, ZeroResource)

\* Provider.totalResourceReq
totalResourceReq(m, now) == foreachReq(m, DOMAIN m, now, ZeroResource)

\* podMap.foreach with the visitor of runningPodsNum
RECURSIVE foreachNum(_, _, _, _)
foreachNum(m, keys, now, podsNum) ==
  IF keys = {} THEN podsNum
  ELSE LET key == CHOOSE k \in keys : TRUE
           pod == m[key]
           passedSeconds == passedSecondsAt(now, pod)
       IN foreachNum(m, keys \ {key}, now,
            IF pod.status = simPodOk /\ ~isTerminated(pod, passedSeconds)
              THEN podsNum + 1
              ELSE podsNum)

\* runningPodsNum, had the visitor left out the test of pod.status.
runningPodsNum_anyStatus(m, now) ==
  Cardinality({k \in DOMAIN m : ~isTerminated(m[k], passedSecondsAt(now, m[k]))})

\* Provider.runningPodsNum
runningPodsNum(m, now) == foreachNum(m, DOMAIN m, now, 0)

\* ---------------------------------------------------------------- handlers
\* The handlers as one atomic step each: calls that do not overlap.

threadVars == <<pc, arg, loc>>
nodeVars == <<totalResourceUsage, node>>

\* CreatePodStatus, had CreatePod left the candidate's own request out.
CreatePodStatus_withoutCandidate(m, now, pod) ==
  LET newTotalReq == totalResourceReq(m, now)
      cap == Capacity
  IN IF isOverCapacity(newTotalReq, cap) \/ runningPodsNum(m, now) >= Value(Pods(cap))
       THEN simPodOverCapacity
       ELSE simPodOk

\* CreatePodStatus, had CreatePod compared the pod count with > for >=.
CreatePodStatus_onePodMore(m, now, pod) ==
  LET newTotalReq == add(totalResourceReq(m, now), getResourceReq(Deref(pod)))
      cap == Capacity
  IN IF isOverCapacity(newTotalReq, cap) \/ runningPodsNum(m, now) > Value(Pods(cap))
       THEN simPodOverCapacity
       ELSE simPodOk

\* CreatePodStatus, had CreatePod left the record of the candidate's own key
\* out of the registry it traverses.
CreatePodStatus_withoutExisting(m, now, pod) ==
  LET others == delete(m, buildKey(Deref(pod)).key)
      newTotalReq == add(totalResourceReq(others, now), getResourceReq(Deref(pod)))
      cap == Capacity
  IN IF isOverCapacity(newTotalReq, cap) \/ runningPodsNum(others, now) >= Value(Pods(cap))
       THEN simPodOverCapacity
       ELSE simPodOk

\* The status CreatePod gives the new simPod, from the registry m it traverses.
CreatePodStatus(m, now, pod) ==
  LET newTotalReq == add(totalResourceReq(m, now), getResourceReq(Deref(pod)))
      cap == Capacity
  IN IF isOverCapacity(newTotalReq, cap) \/ runningPodsNum(m, now) >= Value(Pods(cap))
       THEN simPodOverCapacity
       ELSE simPodOk

\* CreatePod, had it returned an error for a pod over the capacity
\* and stored nothing.
CreatePod_rejectionFails(pod) ==
  LET k == buildKey(Deref(pod))
      s == parseSimSpec(Deref(pod))
      now == clock
      status == CreatePodStatus(pods, now, pod)
      simPod == [pod |-> pod, startTime |-> now, spec |-> s.spec, status |-> status]
  IN /\ IF k.err # NoError
          THEN /\ ret' = Returned("CreatePod", Deref(pod).namespace, Deref(pod).name, k.err, NoValue)
               /\ UNCHANGED pods
        ELSE IF s.err # NoError
          THEN /\ ret' = Returned("CreatePod", Deref(pod).namespace, Deref(pod).name, s.err, NoValue)
               /\ UNCHANGED pods
        ELSE IF status = simPodOverCapacity
          THEN /\ ret' = Returned("CreatePod", Deref(pod).namespace, Deref(pod).name,
                                  Errorf("over capacity", k.key), NoValue)
               /\ UNCHANGED pods
        ELSE /\ pods' = store(pods, k.key, simPod)
             /\ ret' = Returned("CreatePod", Deref(pod).namespace, Deref(pod).name, NoError,
                                 [newTotalReq |-> add(totalResourceReq(pods, now),
                                                      getResourceReq(Deref(pod))),
                                  podsNum |-> runningPodsNum(pods, now)])
     /\ UNCHANGED <<clock, threadVars, nodeVars>>

\* Provider.CreatePod
CreatePod(pod) ==
  LET k == buildKey(Deref(pod))
      s == parseSimSpec(Deref(pod))
      now == clock
      simPod == [pod |-> pod, startTime |-> now, spec |-> s.spec,
                 status |-> CreatePodStatus(pods, now, pod)]
  IN /\ IF k.err # NoError
          THEN /\ ret' = Returned("CreatePod", Deref(pod).namespace, Deref(pod).name, k.err, NoValue)
               /\ UNCHANGED pods
        ELSE IF s.err # NoError
          THEN /\ ret' = Returned("CreatePod", Deref(pod).namespace, Deref(pod).name, s.err, NoValue)
               /\ UNCHANGED pods
        ELSE /\ pods' = store(pods, k.key, simPod)
             /\ ret' = Returned("CreatePod", Deref(pod).namespace, Deref(pod).name, NoError,
                                 [newTotalReq |-> add(totalResourceReq(pods, now),
                                                      getResourceReq(Deref(pod))),
                                  podsNum |-> runningPodsNum(pods, now)])
     /\ UNCHANGED <<clock, threadVars, nodeVars>>

\* UpdatePod, had it run the admission of CreatePod again.
UpdatePod_readmits(pod) ==
  LET k == buildKey(Deref(pod))
      l == load(pods, k.key)
  IN /\ IF k.err # NoError
          THEN /\ ret' = Returned("UpdatePod", Deref(pod).namespace, Deref(pod).name, k.err, NoValue)
               /\ UNCHANGED pods
        ELSE IF ~l.ok
          THEN /\ ret' = Returned("UpdatePod", Deref(pod).namespace, Deref(pod).name,
                                  Errorf("pod does not exist", k.key), NoValue)
               /\ UNCHANGED pods
        ELSE /\ pods' = store(pods, k.key,
                           [l.pod EXCEPT !.pod = pod,
                              !.status = CreatePodStatus(delete(pods, k.key), clock, pod)])
             /\ ret' = Returned("UpdatePod", Deref(pod).namespace, Deref(pod).name, NoError, NoValue)
     /\ UNCHANGED <<clock, threadVars, nodeVars>>

\* UpdatePod, had it stored a new simPod for a key it did not find.
UpdatePod_upserts(pod) ==
  LET k == buildKey(Deref(pod))
      l == load(pods, k.key)
  IN /\ IF k.err # NoError
          THEN /\ ret' = Returned("UpdatePod", Deref(pod).namespace, Deref(pod).name, k.err, NoValue)
               /\ UNCHANGED pods
        ELSE /\ pods' = store(pods, k.key,
                           IF l.ok THEN [l.pod EXCEPT !.pod = pod]
                           ELSE [pod |-> pod, startTime |-> 0, spec |-> <<>>,
                                 status |-> simPodOk])
             /\ ret' = Returned("UpdatePod", Deref(pod).namespace, Deref(pod).name, NoError, NoValue)
     /\ UNCHANGED <<clock, threadVars, nodeVars>>

\* Provider.UpdatePod
UpdatePod(pod) ==
  LET k == buildKey(Deref(pod))
      l == load(pods, k.key)
  IN /\ IF k.err # NoError
          THEN /\ ret' = Returned("UpdatePod", Deref(pod).namespace, Deref(pod).name, k.err, NoValue)
               /\ UNCHANGED pods
        ELSE IF ~l.ok
          THEN /\ ret' = Returned("UpdatePod", Deref(pod).namespace, Deref(pod).name,
                                  Errorf("pod does not exist", k.key), NoValue)
               /\ UNCHANGED pods
        ELSE /\ pods' = store(pods, k.key, [l.pod EXCEPT !.pod = pod])
             /\ ret' = Returned("UpdatePod", Deref(pod).namespace, Deref(pod).name, NoError, NoValue)
     /\ UNCHANGED <<clock, threadVars, nodeVars>>

\* Provider.DeletePod
DeletePod(pod) ==
  LET k == buildKey(Deref(pod))
  IN /\ IF k.err # NoError
          THEN /\ ret' = Returned("DeletePod", Deref(pod).namespace, Deref(pod).name, k.err, NoValue)
               /\ UNCHANGED pods
          ELSE /\ pods' = delete(pods, k.key)
               /\ ret' = Returned("DeletePod", Deref(pod).namespace, Deref(pod).name, NoError, NoValue)
     /\ UNCHANGED <<clock, threadVars, nodeVars>>

\* Provider.getSimPod
getSimPod(m, namespace, name) ==
  LET k == buildKeyFromNames(namespace, name)
      l == load(m, k.key)
  IN IF k.err # NoError THEN [pod |-> NoPod, found |-> FALSE, err |-> k.err]
     ELSE IF ~l.ok THEN [pod |-> NoPod, found |-> FALSE, err |-> NoError]
     ELSE [pod |-> l.pod, found |-> TRUE, err |-> NoError]

\* Provider.GetPod
GetPod(namespace, name) ==
  LET g == getSimPod(pods, namespace, name)
  IN /\ ret' = Returned("GetPod", namespace, name, g.err,
                        IF g.found THEN g.pod.pod ELSE NoPod)
     /\ UNCHANGED <<pods, clock, threadVars, nodeVars>>

\* Provider.GetPods
GetPods ==
  /\ ret' = Returned("GetPods", "", "", NoError, listPods(pods))
  /\ UNCHANGED <<pods, clock, threadVars, nodeVars>>

\* A time of the status: set or absent
NoTime == [set |-> FALSE, t |-> 0]
Time(t) == [set |-> TRUE, t |-> t]

\* buildPodStatus
buildPodStatus(pod, phase, startTime, containerState) ==
  [phase |-> phase, reason |-> "", message |-> "",
   startTime |-> startTime,
   conditions |-> {"Initialized", "Ready", "PodScheduled"},
   containerStatuses |->
     [i \in DOMAIN Deref(pod.pod).containers |->
        [ready |-> TRUE, restartCount |-> 0, state |-> containerState]]]

\* podStatus, had the switch looked at the elapsed time before the status of
\* the simPod: a pod over the capacity that has outlived its plan succeeds.
podStatus_rejectedExpires(pod, now) ==
  LET passedSeconds == passedSecondsAt(now, pod)
      startTime == Time(pod.startTime)
  IN IF isTerminated(pod, passedSeconds)
       THEN LET finishTime == Time(pod.startTime + totalSeconds(pod) * Second)
            IN buildPodStatus(pod, "Succeeded", startTime,
                 [kind |-> "terminated", exitCode |-> 0, reason |-> "Succeeded",
                  startedAt |-> startTime, finishedAt |-> finishTime])
     ELSE IF pod.status = simPodOverCapacity
       THEN [phase |-> "Failed", reason |-> "CapacityExceeded",
             message |-> "Pod cannot be started due to exceeded capacity",
             startTime |-> NoTime, conditions |-> {}, containerStatuses |-> <<>>]
     ELSE buildPodStatus(pod, "Running", startTime,
            [kind |-> "running", startedAt |-> startTime])

\* podStatus, had it taken the time of the query for the finish time.
podStatus_finishedNow(pod, now) ==
  IF pod.status = simPodOverCapacity
    THEN [phase |-> "Failed", reason |-> "CapacityExceeded",
          message |-> "Pod cannot be started due to exceeded capacity",
          startTime |-> NoTime, conditions |-> {}, containerStatuses |-> <<>>]
  ELSE LET passedSeconds == passedSecondsAt(now, pod)
           startTime == Time(pod.startTime)
       IN IF isTerminated(pod, passedSeconds)
            THEN buildPodStatus(pod, "Succeeded", startTime,
                   [kind |-> "terminated", exitCode |-> 0, reason |-> "Succeeded",
                    startedAt |-> startTime, finishedAt |-> Time(now)])
            ELSE buildPodStatus(pod, "Running", startTime,
                   [kind |-> "running", startedAt |-> startTime])

\* The v1.PodStatus GetPodStatus builds for a simPod it has loaded.
podStatus(pod, now) ==
  IF pod.status = simPodOverCapacity
    THEN [phase |-> "Failed", reason |-> "CapacityExceeded",
          message |-> "Pod cannot be started due to exceeded capacity",
          startTime |-> NoTime, conditions |-> {}, containerStatuses |-> <<>>]
  ELSE IF pod.status = simPodOk
    THEN LET passedSeconds == passedSecondsAt(now, pod)
             startTime == Time(pod.startTime)
         IN IF isTerminated(pod, passedSeconds)
              THEN LET finishTime == Time(pod.startTime + totalSeconds(pod) * Second)
                   IN buildPodStatus(pod, "Succeeded", startTime,
                        [kind |-> "terminated", exitCode |-> 0, reason |-> "Succeeded",
                         startedAt |-> startTime, finishedAt |-> finishTime])
              ELSE buildPodStatus(pod, "Running", startTime,
                        [kind |-> "running", startedAt |-> startTime])
  ELSE [phase |-> "", reason |-> "", message |-> "",
        startTime |-> NoTime, conditions |-> {}, containerStatuses |-> <<>>]

\* Provider.GetPodStatus
GetPodStatus(namespace, name) ==
  LET g == getSimPod(pods, namespace, name)
  IN /\ ret' = Returned("GetPodStatus", namespace, name, g.err,
                        IF g.found THEN podStatus(g.pod, clock) ELSE NoValue)
     /\ UNCHANGED <<pods, clock, threadVars, nodeVars>>

\* The passing of time.
Tick ==
  /\ clock < MaxClock
  /\ clock' = clock + 1
  /\ UNCHANGED <<pods, ret, threadVars, nodeVars>>

\* Calls made one at a time.
Next ==
  \/ \E pod \in CreateInputs : CreatePod(pod)
  \/ \E pod \in UpdateInputs : UpdatePod(pod)
  \/ \E pod \in DeleteInputs : DeletePod(pod)
  \/ \E n \in AllNames : GetPod(n[1], n[2])
  \/ \E n \in AllNames : GetPodStatus(n[1], n[2])
  \/ GetPods
  \/ Tick

Spec == Init /\ [][Next]_vars

\* -------------------------------------------------------------- goroutines
\* The handlers that read the registry and write it later, step by step, as
\* goroutines that overlap.  A step is one operation of the podMap: a load, a
\* store, or one traversal (foreach), which is taken here as a whole.

\* The overlapping calls are made within one tick of the clock, with these
\* pods: two pods of kind B together ask for more CPU than the node has.
ConcCreateInputs == {"B"} \X GoodNames
ConcUpdateInputs == {"A"} \X GoodNames
ConcDeleteInputs == {"A"} \X GoodNames

Return(t) ==
  /\ pc' = [pc EXCEPT ![t] = "idle"]
  /\ arg' = [arg EXCEPT ![t] = NoPod]
  /\ loc' = [loc EXCEPT ![t] = NoLocals]

\* CreatePod up to `now := time.Now()`
CreateBegin(t, pod) ==
  LET k == buildKey(Deref(pod))
      s == parseSimSpec(Deref(pod))
  IN /\ pc[t] = "idle"
     /\ IF k.err # NoError
          THEN /\ ret' = Returned("CreatePod", Deref(pod).namespace, Deref(pod).name, k.err, NoValue)
               /\ UNCHANGED threadVars
        ELSE IF s.err # NoError
          THEN /\ ret' = Returned("CreatePod", Deref(pod).namespace, Deref(pod).name, s.err, NoValue)
               /\ UNCHANGED threadVars
        ELSE /\ pc' = [pc EXCEPT ![t] = "totalResourceReq"]
             /\ arg' = [arg EXCEPT ![t] = pod]
             /\ loc' = [loc EXCEPT ![t] =
                          [key |-> k.key, spec |-> s.spec, now |-> clock, status |-> simPodOk]]
             /\ UNCHANGED ret
     /\ UNCHANGED <<pods, clock, nodeVars>>

\* CreatePod: p.totalResourceReq(now).add(getResourceReq(pod)) and
\* isOverCapacity; when it is over capacity, runningPodsNum is not called.
CreateTotalReq(t) ==
  LET newTotalReq == add(totalResourceReq(pods, loc[t].now), getResourceReq(Deref(arg[t])))
  IN /\ pc[t] = "totalResourceReq"
     /\ IF isOverCapacity(newTotalReq, Capacity)
          THEN /\ loc' = [loc EXCEPT ![t].status = simPodOverCapacity]
               /\ pc' = [pc EXCEPT ![t] = "store"]
          ELSE /\ pc' = [pc EXCEPT ![t] = "runningPodsNum"]
               /\ UNCHANGED loc
     /\ UNCHANGED <<pods, clock, ret, arg, nodeVars>>

\* CreatePod: p.runningPodsNum(now) >= cap.Pods().Value()
CreateRunningNum(t) ==
  /\ pc[t] = "runningPodsNum"
  /\ loc' = [loc EXCEPT ![t].status =
               IF runningPodsNum(pods, loc[t].now) >= Value(Pods(Capacity))
                 THEN simPodOverCapacity ELSE simPodOk]
  /\ pc' = [pc EXCEPT ![t] = "store"]
  /\ UNCHANGED <<pods, clock, ret, arg, nodeVars>>

\* CreatePod: p.pods.store(key, simPod); return nil
CreateStore(t) ==
  /\ pc[t] = "store"
  /\ pods' = store(pods, loc[t].key,
                   [pod |-> arg[t], startTime |-> loc[t].now, spec |-> loc[t].spec,
                    status |-> loc[t].status])
  /\ ret' = Returned("CreatePod", Deref(arg[t]).namespace, Deref(arg[t]).name, NoError, NoValue)
  /\ Return(t)
  /\ UNCHANGED <<clock, nodeVars>>

\* UpdatePod up to p.pods.load(key)
UpdateLoad(t, pod) ==
  LET k == buildKey(Deref(pod))
      l == load(pods, k.key)
  IN /\ pc[t] = "idle"
     /\ IF k.err # NoError
          THEN /\ ret' = Returned("UpdatePod", Deref(pod).namespace, Deref(pod).name, k.err, NoValue)
               /\ UNCHANGED threadVars
        ELSE IF ~l.ok
          THEN /\ ret' = Returned("UpdatePod", Deref(pod).namespace, Deref(pod).name,
                                  Errorf("pod does not exist", k.key), NoValue)
               /\ UNCHANGED threadVars
        ELSE /\ pc' = [pc EXCEPT ![t] = "updateStore"]
             /\ arg' = [arg EXCEPT ![t] = pod]
             /\ loc' = [loc EXCEPT ![t] = [key |-> k.key, simPod |-> l.pod]]
             /\ UNCHANGED ret
     /\ UNCHANGED <<pods, clock, nodeVars>>

\* UpdatePod: simPod.pod = pod; p.pods.store(key, simPod); return nil
UpdateStore(t) ==
  /\ pc[t] = "updateStore"
  /\ pods' = store(pods, loc[t].key, [loc[t].simPod EXCEPT !.pod = arg[t]])
  /\ ret' = Returned("UpdatePod", Deref(arg[t]).namespace, Deref(arg[t]).name, NoError, NoValue)
  /\ Return(t)
  /\ UNCHANGED <<clock, nodeVars>>

\* Calls that overlap: any goroutine that is idle starts a call, any
\* goroutine inside a call takes its next step.
NextConc ==
  \/ \E t \in Threads : \E pod \in ConcCreateInputs : CreateBegin(t, pod)
  \/ \E t \in Threads : CreateTotalReq(t)
  \/ \E t \in Threads : CreateRunningNum(t)
  \/ \E t \in Threads : CreateStore(t)
  \/ \E t \in Threads : \E pod \in ConcUpdateInputs : UpdateLoad(t, pod)
  \/ \E t \in Threads : UpdateStore(t)
  \/ \E pod \in ConcDeleteInputs : DeletePod(pod)
  \/ \E n \in GoodNames : GetPod(n[1], n[2])

SpecConc == Init /\ [][NextConc]_vars

\* ------------------------------------------------------------------ claims
\* The vocabulary of the specification, written out on its own terms.

\* "{namespace}-{name}"
WorkloadId(namespace, name) == namespace \o "-" \o name
IdOf(pod) == WorkloadId(pod[2][1], pod[2][2])
ValidId(pod) == pod[2][1] # "" /\ pod[2][2] # ""

RECURSIVE Sum(_)
Sum(f) ==
  IF DOMAIN f = {} THEN 0
  ELSE LET k == CHOOSE x \in DOMAIN f : TRUE
       IN f[k] + Sum([j \in DOMAIN f \ {k} |-> f[j]])

\* The sum of the durations of the phases of a plan.
PlanSeconds(plan) == Sum([i \in DOMAIN plan |-> plan[i].seconds])

\* Whole seconds from the record's start time to now.
Elapsed(rec, now) == (now - rec.startTime) \div Second

Accepted(rec) == rec.status = simPodOk
Rejected(rec) == rec.status = simPodOverCapacity
Terminated(rec, now) == Elapsed(rec, now) >= PlanSeconds(rec.spec)

\* The ids of the records that are Accepted and have not terminated at now.
RunningIds(m, now) == {k \in DOMAIN m : Accepted(m[k]) /\ ~Terminated(m[k], now)}

\* The demand admission attributes to a pod, for every pod of the heap.
Demand == [ptr \in DOMAIN Heap |-> getResourceReq(Heap[ptr])]

\* currentDemand: the demand admission attributes to the running records.
CurrentDemand(m, now) ==
  LET running == RunningIds(m, now)
  IN [r \in {"milliCPU", "memory", "gpu"} |->
        Sum([k \in running |-> Demand[m[k].pod][r]])]

\* projectedDemand = currentDemand + candidateDemand
ProjectedDemand(m, now, pod) ==
  LET current == CurrentDemand(m, now)
  IN [r \in {"milliCPU", "memory", "gpu"} |-> current[r] + Demand[pod][r]]

CapacityCPU == MilliValue(ParseQuantity(Config.CPU))
CapacityMemory == Value(ParseQuantity(Config.Memory))
CapacityGPU == Value(ParseQuantity(Config.GPU))
MaxPods == Value(ParseQuantity(Config.Pods))

ExceedsResources(demand) ==
  \/ demand["milliCPU"] > CapacityCPU
  \/ demand["memory"] > CapacityMemory
  \/ demand["gpu"] > CapacityGPU

\* The pods whose CreatePod gets past the key and the parser.
Creatable == {pod \in CreateInputs : ValidId(pod) /\ pod[1] \in {"A", "B", "C"}}

\* The last call that returned was op, and it returned no error.
Succeeded(op) == ret.op = op /\ ret.err = NoError

\* The last call that returned was op on the pod('s namespace and name).
ReturnedOn(op, pod) ==
  ret.op = op /\ ret.namespace = pod[2][1] /\ ret.name = pod[2][2]

\* The last call that returned was op on the pod, and it returned no error.
SucceededOn(op, pod) == ReturnedOn(op, pod) /\ ret.err = NoError

\* C1: a CreatePod that stores a record stores it as over capacity when the
\* projected demand (current demand plus the candidate's) exceeds the cpu,
\* memory or gpu capacity, and, when there is a pod slot left, only then: a
\* projected demand equal to the capacity is accepted.
C1_ResourceAdmission ==
  [][Succeeded("CreatePod")' =>
       \A pod \in Creatable :
         (SucceededOn("CreatePod", pod)' /\ CreatePod(pod)) =>
           LET projected == ProjectedDemand(pods, clock, pod)
               stored == pods'[IdOf(pod)]
           IN /\ ExceedsResources(projected) => Rejected(stored)
              /\ Cardinality(RunningIds(pods, clock)) + 1 <= MaxPods
                   => (Rejected(stored) <=> ExceedsResources(projected))
              /\ Rejected(stored) \/ Accepted(stored)]_vars

\* C1 witness: the last call created ns/b, a pod of kind B (1000m), while
\* ns/a, of kind A (500m), was running: the projected cpu was the capacity,
\* 1500m, exactly, and ns/b was accepted.
C1_Witness ==
  /\ ret.op = "CreatePod" /\ ret.err = NoError /\ ret.name = "b"
  /\ ret.val.newTotalReq.milliCPU = CapacityCPU
  /\ ret.val.podsNum = 1
  /\ "ns-b" \in DOMAIN pods /\ Accepted(pods["ns-b"])
  /\ "ns-a" \in RunningIds(pods, pods["ns-b"].startTime)

\* C2: a CreatePod that stores a record stores it as over capacity whenever
\* the running records (Accepted, not terminated at the call's instant) already
\* number MaxPods or more, whatever the demand; when the candidate takes the
\* last slot and the projected demand fits, it is accepted.
C2_PodCountAdmission ==
  [][Succeeded("CreatePod")' =>
       \A pod \in Creatable :
         (SucceededOn("CreatePod", pod)' /\ CreatePod(pod)) =>
           LET runningCount == Cardinality(RunningIds(pods, clock))
               stored == pods'[IdOf(pod)]
           IN /\ runningCount + 1 > MaxPods => Rejected(stored)
              /\ (runningCount + 1 = MaxPods
                    /\ ~ExceedsResources(ProjectedDemand(pods, clock, pod)))
                   => Accepted(stored)]_vars

\* C2 witness: the last call created a pod while MaxPods records were
\* running; the projected demand fitted the node, and the pod was rejected.
C2_Witness ==
  /\ Succeeded("CreatePod")
  /\ ret.val.podsNum >= MaxPods
  /\ ~ExceedsResources(ret.val.newTotalReq)
  /\ Rejected(pods[WorkloadId(ret.namespace, ret.name)])

\* The registry without the records that are rejected or have terminated.
OnlyRunning(m, now) == [k \in RunningIds(m, now) |-> m[k]]

\* C3: the status a candidate is given is the status it would be given if the
\* rejected records, and the accepted records that have terminated, were not
\* in the registry.
C3_OnlyRunningCount ==
  \A pod \in Creatable :
    CreatePodStatus(pods, clock, pod) = CreatePodStatus(OnlyRunning(pods, clock), clock, pod)

\* C3 witness: ns/b was created last and accepted as the only running pod,
\* while the registry held ns/a, rejected or terminated, whose demand added to
\* that of ns/b exceeds the cpu capacity.
C3_Witness ==
  /\ SucceededOn("CreatePod", <<"B", <<"ns", "b">>>>)
  /\ ret.val.podsNum = 0
  /\ Accepted(pods["ns-b"])
  /\ "ns-a" \in DOMAIN pods
  /\ "ns-a" \notin RunningIds(pods, pods["ns-b"].startTime)
  /\ Demand[pods["ns-a"].pod]["milliCPU"] + Demand[pods["ns-b"].pod]["milliCPU"] > CapacityCPU

\* C4: when calls overlap, every CreatePod accepts its pod only on what its
\* own traversals of the registry saw: a projected demand that fits and a
\* free pod slot, and it stores the status it decided then.  (That two such
\* calls leave the node over its capacity is the witness.)
C4_AcceptedOnWhatWasSeen ==
  [][\A t \in Threads :
       /\ (pc[t] = "totalResourceReq" /\ pc'[t] = "runningPodsNum")
            => ~ExceedsResources(ProjectedDemand(pods, loc[t].now, arg[t]))
       /\ (pc[t] = "totalResourceReq" /\ pc'[t] = "store")
            => ExceedsResources(ProjectedDemand(pods, loc[t].now, arg[t]))
       /\ (pc[t] = "runningPodsNum" /\ pc'[t] = "store")
            => (Accepted(loc'[t]) <=>
                  Cardinality(RunningIds(pods, loc[t].now)) + 1 <= MaxPods)
       /\ (pc[t] = "store" /\ pc'[t] = "idle")
            => pods'[IdOf(arg[t])].status = loc[t].status]_vars

\* C4 witness: no call is in flight, ns/a and ns/b were both created as pods
\* of kind B and both accepted, both are running, and the demand of the two
\* exceeds the cpu capacity of the node.
C4_Witness ==
  /\ \A t \in Threads : pc[t] = "idle"
  /\ DOMAIN pods = {"ns-a", "ns-b"}
  /\ \A k \in DOMAIN pods : pods[k].pod[1] = "B" /\ Accepted(pods[k])
  /\ RunningIds(pods, clock) = DOMAIN pods
  /\ CurrentDemand(pods, clock)["milliCPU"] > CapacityCPU

\* The id of the workload the last returned call was about.
RetId == WorkloadId(ret.namespace, ret.name)

\* Pods with a valid id whose simSpec does not parse, and the error of each.
Unparsable == {"NoSpec", "Undecodable", "BadQuantity"} \X GoodNames
ParseError(pod) ==
  CASE pod[1] = "NoSpec" -> Errorf("simSpec not defined", "")
    [] pod[1] = "Undecodable" -> Errorf("json: cannot unmarshal", "")
    [] pod[1] = "BadQuantity" -> Errorf("Invalid CPU value", "notaquantity")

\* What GetPod and GetPods have returned agrees with the registry, whatever
\* the status of the records.
GetReturnsStored ==
  /\ (ret.op = "GetPod" /\ RetId \in DOMAIN pods)
       => ret.err = NoError /\ ret.val = pods[RetId].pod
  /\ ret.op = "GetPods"
       => \A k \in DOMAIN pods : pods[k].pod \in DOMAIN ret.val

\* C5: a CreatePod whose pod has a key and a simSpec that parses returns no
\* error and stores a record with the pod, start time now and the parsed
\* plan, accepted or rejected; GetPod returns a stored record and GetPods
\* includes it, rejected or not.
C5_RejectionIsStored ==
  [][/\ ret'.op = "CreatePod" =>
          \A pod \in Creatable :
            (ReturnedOn("CreatePod", pod)' /\ CreatePod(pod)) =>
              LET stored == pods'[IdOf(pod)]
              IN /\ ret'.err = NoError
                 /\ IdOf(pod) \in DOMAIN pods'
                 /\ stored.pod = pod
                 /\ stored.startTime = clock
                 /\ stored.spec = parseSimSpec(Deref(pod)).spec
                 /\ Rejected(stored) \/ Accepted(stored)
     /\ GetReturnsStored']_vars

\* C5 witness: GetPod has returned, without error, the payload of a record
\* that CreatePod stored as rejected.
C5_Witness ==
  /\ Succeeded("GetPod")
  /\ RetId \in DOMAIN pods
  /\ Rejected(pods[RetId])
  /\ ret.val = pods[RetId].pod
  /\ pods[RetId].spec = parseSimSpec(Deref(ret.val)).spec

\* C6: a CreatePod whose pod has a simSpec that is missing, undecodable or
\* holds an invalid quantity returns that error and leaves the registry as
\* it was.
C6_ParseFailureStoresNothing ==
  [][ret'.op = "CreatePod" =>
       \A pod \in Unparsable :
         (ReturnedOn("CreatePod", pod)' /\ CreatePod(pod)) =>
           /\ ret'.err = ParseError(pod)
           /\ pods' = pods]_vars

\* C6 witness: CreatePod has returned the error of an invalid quantity, no
\* record is stored for its id, and the record of the other id is there.
C6_Witness ==
  /\ ret.op = "CreatePod"
  /\ ret.err = Errorf("Invalid CPU value", "notaquantity")
  /\ RetId \notin DOMAIN pods
  /\ pods # <<>>

\* C7: an UpdatePod of a pod whose key is in the registry returns no error
\* and replaces the payload of that record only: its start time, status and
\* plan stay, and so does every other record.
C7_UpdateReplacesPayloadOnly ==
  [][ret'.op = "UpdatePod" =>
       \A pod \in UpdateInputs :
         (/\ ReturnedOn("UpdatePod", pod)'
          /\ ValidId(pod)
          /\ IdOf(pod) \in DOMAIN pods
          /\ UpdatePod(pod)) =>
           /\ ret'.err = NoError
           /\ DOMAIN pods' = DOMAIN pods
           /\ pods'[IdOf(pod)] = [pods[IdOf(pod)] EXCEPT !.pod = pod]
           /\ \A k \in DOMAIN pods \ {IdOf(pod)} : pods'[k] = pods[k]]_vars

\* C7 witness: UpdatePod has given an accepted record, created with the plan
\* of kind A, the payload of kind B, and with it the demand of the running
\* pods exceeds the cpu capacity; the record is accepted still.
C7_Witness ==
  /\ Succeeded("UpdatePod")
  /\ RetId \in DOMAIN pods
  /\ pods[RetId].pod[1] = "B"
  /\ pods[RetId].spec = parseSimSpec(Deref(<<"A", pods[RetId].pod[2]>>)).spec
  /\ Accepted(pods[RetId])
  /\ RetId \in RunningIds(pods, clock)
  /\ CurrentDemand(pods, clock)["milliCPU"] > CapacityCPU

\* C8: an UpdatePod of a pod whose key is not in the registry returns the
\* error "pod does not exist" and leaves the registry as it was.
C8_UpdateOfAbsentFails ==
  [][ret'.op = "UpdatePod" =>
       \A pod \in UpdateInputs :
         (/\ ReturnedOn("UpdatePod", pod)'
          /\ ValidId(pod)
          /\ IdOf(pod) \notin DOMAIN pods
          /\ UpdatePod(pod)) =>
           /\ ret'.err = Errorf("pod does not exist", IdOf(pod))
           /\ pods' = pods]_vars

\* C8 witness: UpdatePod has returned "pod does not exist" for an id that
\* has no record, while the other id has one.
C8_Witness ==
  /\ ret.op = "UpdatePod"
  /\ ret.err = Errorf("pod does not exist", RetId)
  /\ RetId \notin DOMAIN pods
  /\ pods # <<>>

\* GetPod and GetPodStatus on an id that has no record return nil, no error.
AbsentIsNotFound ==
  (ret.op \in {"GetPod", "GetPodStatus"} /\ ret.namespace # "" /\ ret.name # ""
     /\ RetId \notin DOMAIN pods)
    => /\ ret.err = NoError
       /\ ret.val = IF ret.op = "GetPod" THEN NoPod ELSE NoValue

\* C9: a DeletePod of a pod with a key returns no error, whether the key has
\* a record or not; after it the key has no record and every other record
\* is as before, so that a second DeletePod changes nothing; GetPod and
\* GetPodStatus on a key without a record report it as not found.
C9_DeleteIsIdempotent ==
  [][/\ ret'.op = "DeletePod" =>
          \A pod \in DeleteInputs :
            (ReturnedOn("DeletePod", pod)' /\ ValidId(pod) /\ DeletePod(pod)) =>
              /\ ret'.err = NoError
              /\ DOMAIN pods' = DOMAIN pods \ {IdOf(pod)}
              /\ \A k \in DOMAIN pods' : pods'[k] = pods[k]
              /\ delete(pods', IdOf(pod)) = pods'
              /\ ~getSimPod(pods', pod[2][1], pod[2][2]).found
     /\ AbsentIsNotFound']_vars

\* C9 witness: after a DeletePod of ns/a, which left the record of ns/b,
\* GetPodStatus of ns/a has returned no status and no error.
C9_Witness ==
  /\ Succeeded("GetPodStatus")
  /\ ret.val = NoValue
  /\ RetId = "ns-a"
  /\ DOMAIN pods = {"ns-b"}

\* The number of payloads in a bag listPods returns.
RECURSIVE BagSize(_)
BagSize(b) ==
  IF DOMAIN b = {} THEN 0
  ELSE LET p == CHOOSE x \in DOMAIN b : TRUE
       IN b[p] + BagSize([x \in DOMAIN b \ {p} |-> b[x]])

\* C10: GetPods returns one payload for each id in the registry, the one
\* stored for it, and nothing else; an id comes into the registry only by a
\* CreatePod of it that succeeds, leaves it only by a DeletePod of it, and
\* its payload changes only by a CreatePod or UpdatePod of it that succeeds,
\* to the payload of that call.
C10_ListIsTheRegistry ==
  [][/\ ret'.op = "GetPods" =>
          /\ BagSize(ret'.val) = Cardinality(DOMAIN pods)
          /\ \A k \in DOMAIN pods :
               /\ pods[k].pod \in DOMAIN ret'.val
               /\ ret'.val[pods[k].pod] =
                    Cardinality({j \in DOMAIN pods : pods[j].pod = pods[k].pod})
     /\ \A k \in DOMAIN pods' \ DOMAIN pods :
          /\ Succeeded("CreatePod")' /\ RetId' = k
          /\ \E pod \in CreateInputs :
               IdOf(pod) = k /\ pods'[k].pod = pod /\ CreatePod(pod)
     /\ \A k \in DOMAIN pods \ DOMAIN pods' :
          /\ Succeeded("DeletePod")' /\ RetId' = k
          /\ \E pod \in DeleteInputs : IdOf(pod) = k /\ DeletePod(pod)
     /\ \A k \in DOMAIN pods \cap DOMAIN pods' :
          pods'[k].pod # pods[k].pod =>
            /\ (Succeeded("CreatePod")' \/ Succeeded("UpdatePod")') /\ RetId' = k
            /\ \/ \E pod \in CreateInputs :
                    IdOf(pod) = k /\ pods'[k].pod = pod /\ CreatePod(pod)
               \/ \E pod \in UpdateInputs :
                    IdOf(pod) = k /\ pods'[k].pod = pod /\ UpdatePod(pod)
     /\ Succeeded("CreatePod")' =>
          \A pod \in CreateInputs :
            (ReturnedOn("CreatePod", pod)' /\ CreatePod(pod)) =>
              IdOf(pod) \in DOMAIN pods' /\ pods'[IdOf(pod)].pod = pod
     /\ Succeeded("UpdatePod")' =>
          \A pod \in UpdateInputs :
            (ReturnedOn("UpdatePod", pod)' /\ UpdatePod(pod)) =>
              IdOf(pod) \in DOMAIN pods' /\ pods'[IdOf(pod)].pod = pod
     /\ Succeeded("DeletePod")' =>
          \A pod \in DeleteInputs :
            (ReturnedOn("DeletePod", pod)' /\ DeletePod(pod)) =>
              IdOf(pod) \notin DOMAIN pods']_vars

\* C10 witness: after ns/a and ns/b were created and ns/a was deleted,
\* GetPods has returned the payload of ns/b, once, and nothing else.
C10_Witness ==
  /\ ret.op = "GetPods"
  /\ DOMAIN pods = {"ns-b"}
  /\ DOMAIN ret.val = {pods["ns-b"].pod}
  /\ ret.val[pods["ns-b"].pod] = 1
  /\ Rejected(pods["ns-b"])

\* The times at which a record may be queried: from its start to a second
\* past the end of its plan.
QueryTimes(rec) ==
  rec.startTime .. (rec.startTime + (PlanSeconds(rec.spec) + 1) * Second)

\* The status of a rejected record.
IsRejectedStatus(st) ==
  /\ st.phase = "Failed"
  /\ st.reason = "CapacityExceeded"
  /\ st.containerStatuses = <<>>

\* C11: GetPodStatus reports a record stored as over the capacity as failed
\* with the reason CapacityExceeded and no container status, at every time
\* of the query and whatever payload UpdatePod has given it; a rejected
\* record stays rejected until a CreatePod of its id stores another.
C11_RejectedStaysRejected ==
  [][/\ \A k \in DOMAIN pods \cap DOMAIN pods' :
          (Rejected(pods[k]) /\ ~Rejected(pods'[k]))
            => Succeeded("CreatePod")' /\ RetId' = k
     /\ \A k \in DOMAIN pods' :
          Rejected(pods'[k]) =>
            \A now \in QueryTimes(pods'[k]) :
              IsRejectedStatus(podStatus(pods'[k], now))
     /\ (ret'.op = "GetPodStatus" /\ ret'.err = NoError
           /\ RetId' \in DOMAIN pods' /\ Rejected(pods'[RetId']))
          => IsRejectedStatus(ret'.val)]_vars

\* C11 witness: GetPodStatus has reported as failed a record that was
\* rejected with an empty plan, was given the payload of kind B by UpdatePod
\* afterwards, and is queried after time has passed.
C11_Witness ==
  /\ Succeeded("GetPodStatus")
  /\ RetId \in DOMAIN pods
  /\ Rejected(pods[RetId])
  /\ pods[RetId].pod[1] = "B"
  /\ pods[RetId].spec = <<>>
  /\ clock > pods[RetId].startTime
  /\ IsRejectedStatus(ret.val)

\* The status of an accepted record at the time now, in the words of the
\* claim.
IsAcceptedStatus(st, rec, now) ==
  LET elapsed == Elapsed(rec, now)
      containers == Deref(rec.pod).containers
  IN /\ DOMAIN st.containerStatuses = DOMAIN containers
     /\ st.startTime = Time(rec.startTime)
     /\ IF elapsed < totalSeconds(rec)
          THEN /\ st.phase = "Running"
               /\ \A i \in DOMAIN st.containerStatuses :
                    /\ st.containerStatuses[i].state.kind = "running"
                    /\ st.containerStatuses[i].state.startedAt = Time(rec.startTime)
          ELSE /\ st.phase = "Succeeded"
               /\ \A i \in DOMAIN st.containerStatuses :
                    /\ st.containerStatuses[i].state.kind = "terminated"
                    /\ st.containerStatuses[i].state.exitCode = 0
                    /\ st.containerStatuses[i].state.startedAt = Time(rec.startTime)
                    /\ st.containerStatuses[i].state.finishedAt =
                         Time(rec.startTime + totalSeconds(rec) * Second)

\* C12: for an accepted record GetPodStatus reports Running, with every
\* container running since the start time, while the whole seconds elapsed
\* are fewer than totalSeconds(), and Succeeded, with every container
\* terminated with exit code 0 at start time + totalSeconds(), from then on.
C12_StatusFollowsElapsed ==
  /\ [](\A k \in DOMAIN pods :
          Accepted(pods[k]) =>
            \A now \in QueryTimes(pods[k]) :
              IsAcceptedStatus(podStatus(pods[k], now), pods[k], now))
  /\ [][ret'.op = "GetPodStatus" =>
          \A n \in GoodNames :
            (/\ ret'.namespace = n[1] /\ ret'.name = n[2]
             /\ WorkloadId(n[1], n[2]) \in DOMAIN pods
             /\ Accepted(pods[WorkloadId(n[1], n[2])])
             /\ GetPodStatus(n[1], n[2]))
              => /\ ret'.err = NoError
                 /\ IsAcceptedStatus(ret'.val, pods[WorkloadId(n[1], n[2])], clock)]_vars

\* C12 witness: GetPodStatus has reported Succeeded for an accepted record
\* with a plan of one second, queried exactly one second after its start,
\* with that time as the finish time of both containers.
C12_Witness ==
  /\ Succeeded("GetPodStatus")
  /\ RetId \in DOMAIN pods
  /\ Accepted(pods[RetId])
  /\ totalSeconds(pods[RetId]) = 1
  /\ clock = pods[RetId].startTime + Second
  /\ ret.val.phase = "Succeeded"
  /\ Len(ret.val.containerStatuses) = 2
  /\ ret.val.containerStatuses[2].state.finishedAt = Time(clock)

\* ------------------------------------------------------------ phase plans
\* The functions of a simPod's plan, applied to plans and elapsed seconds
\* drawn from bounded sets.  The locals of the call are in loc, its result
\* in ret.

MaxPhases == 4

\* Durations of a phase: int32 values greater than zero.
PhaseSeconds == {1, 3, MaxInt32}

\* Elapsed seconds of a query: int32 values from zero.
PassedSeconds == {0, 1, 2, 3, 4, MaxInt32}

\* The demand of the i-th phase: no two phases of a plan have the same.
PhaseResource(i) == [milliCPU |-> 100 * i, memory |-> i, gpu |-> 0]

\* The plans of at most MaxPhases phases.
Plans ==
  UNION {{[i \in 1..n |-> [seconds |-> d[i], resource |-> PhaseResource(i)]] :
            d \in [1..n -> PhaseSeconds]} : n \in 0..MaxPhases}

InitPlan ==
  /\ pods = <<>>
  /\ totalResourceUsage = ZeroResource
  /\ clock = 0
  /\ ret = Returned("none", "", "", NoError, NoValue)
  /\ pc = [t \in Threads |-> "idle"]
  /\ arg = [t \in Threads |-> NoPod]
  /\ loc \in [p : {[pod |-> NoPod, startTime |-> 0, spec |-> plan, status |-> simPodOk] :
                     plan \in Plans},
              passedSeconds : PassedSeconds]
  /\ node = [pc |-> "wait", now |-> 0]

CallResourceUsage ==
  /\ ret' = Returned("resourceUsage", "", "", NoError,
                     resourceUsage(loc.p, loc.passedSeconds))
  /\ UNCHANGED <<pods, clock, threadVars, nodeVars>>

CallTotalSeconds ==
  /\ ret' = Returned("totalSeconds", "", "", NoError, totalSeconds(loc.p))
  /\ UNCHANGED <<pods, clock, threadVars, nodeVars>>

CallIsTerminated ==
  /\ ret' = Returned("isTerminated", "", "", NoError,
                     isTerminated(loc.p, loc.passedSeconds))
  /\ UNCHANGED <<pods, clock, threadVars, nodeVars>>

NextPlan == CallResourceUsage \/ CallTotalSeconds \/ CallIsTerminated

SpecPlan == InitPlan /\ [][NextPlan]_vars

\* The phase of the plan whose window of elapsed time holds t: the i with
\* (sum of the durations before i) <= t < (sum of the durations up to i),
\* or 0 when t is at or past the sum of all durations.  The sums are those
\* of the integers: t is reduced instead of the durations being added up.
RECURSIVE WindowFrom(_, _, _)
WindowFrom(plan, t, i) ==
  IF plan = <<>> THEN 0
  ELSE IF t < Head(plan).seconds THEN i
  ELSE WindowFrom(Tail(plan), t - Head(plan).seconds, i + 1)

WindowPhase(plan, t) == WindowFrom(plan, t, 1)

\* C13: for a plan and elapsed seconds t >= totalSeconds(), resourceUsage(t)
\* is the zero vector and isTerminated(t) is true.
C13_PastTheEnd ==
  (ret.op = "resourceUsage" /\ loc.passedSeconds >= totalSeconds(loc.p))
    => /\ ret.val = ZeroResource
       /\ isTerminated(loc.p, loc.passedSeconds)

\* C14: for a plan and elapsed seconds 0 <= t < totalSeconds(),
\* resourceUsage(t) is the demand of the one phase whose window holds t, and
\* isTerminated(t) is false.
C14_PhaseOfTheWindow ==
  (ret.op = "resourceUsage" /\ 0 <= loc.passedSeconds
     /\ loc.passedSeconds < totalSeconds(loc.p))
    => /\ WindowPhase(loc.p.spec, loc.passedSeconds) \in DOMAIN loc.p.spec
       /\ ret.val = loc.p.spec[WindowPhase(loc.p.spec, loc.passedSeconds)].resource
       /\ ~isTerminated(loc.p, loc.passedSeconds)

\* ----------------------------------------------------------------- parser
\* parseSimSpec applied to pods whose simSpec annotation decodes to a list
\* of phases drawn from a bounded set.  The pod is in loc, the result in ret.

MaxSpecPhases == 3

\* Phases as decoded from the annotation: two with valid quantities, one
\* with an invalid cpu, one with an invalid memory, and two with valid
\* quantities whose "seconds" is zero or negative.
SpecPhases ==
  {PhaseJSON(1, "500m", "256", 0), PhaseJSON(2, "1", "1Ki", 1),
   PhaseJSON(1, "notaquantity", "256", 0), PhaseJSON(3, "1", "1Gx", 0),
   PhaseJSON(0, "500m", "256", 0), PhaseJSON(-1, "1", "256", 0)}

SpecLists == UNION {[1..n -> SpecPhases] : n \in 0..MaxSpecPhases}

InitParse ==
  /\ pods = <<>>
  /\ totalResourceUsage = ZeroResource
  /\ clock = 0
  /\ ret = Returned("none", "", "", NoError, NoValue)
  /\ pc = [t \in Threads |-> "idle"]
  /\ arg = [t \in Threads |-> NoPod]
  /\ loc \in [pod : {Pod("ns", "a", <<LimitsA>>, Annotation(phases)) :
                       phases \in SpecLists}]
  /\ node = [pc |-> "wait", now |-> 0]

CallParseSimSpec ==
  LET r == parseSimSpec(loc.pod)
  IN /\ ret' = Returned("parseSimSpec", loc.pod.namespace, loc.pod.name, r.err, r.spec)
     /\ UNCHANGED <<pods, clock, threadVars, nodeVars>>

NextParse == CallParseSimSpec

SpecParse == InitParse /\ [][NextParse]_vars

\* A phase of the description has a cpu and a memory that are quantities.
ValidPhase(phase) ==
  phase.cpu \in QuantityStrings /\ phase.memory \in QuantityStrings

\* C15: parseSimSpec returns an error and no plan when a phase at any
\* position has a cpu or a memory that is not a quantity; it returns a plan
\* only when every phase is valid, and the plan then has the phases of the
\* description, as many and in the same order.
C15_ValidationIsExhaustive ==
  ret.op = "parseSimSpec" =>
    LET phases == loc.pod.simSpec.phases
    IN IF \E i \in DOMAIN phases : ~ValidPhase(phases[i])
         THEN ret.err # NoError /\ ret.val = <<>>
         ELSE /\ ret.err = NoError
              /\ Len(ret.val) = Len(phases)
              /\ \A i \in DOMAIN phases :
                   /\ ret.val[i].seconds = phases[i].seconds
                   /\ ret.val[i].resource.milliCPU = MilliValue(Quantities[phases[i].cpu])
                   /\ ret.val[i].resource.memory = Value(Quantities[phases[i].memory])
                   /\ ret.val[i].resource.gpu = phases[i].gpu

\* C15 witness: parseSimSpec has returned an error and no plan for a
\* description of three phases of which only the last is invalid.
C15_Witness ==
  /\ ret.op = "parseSimSpec"
  /\ Len(loc.pod.simSpec.phases) = 3
  /\ ValidPhase(loc.pod.simSpec.phases[1])
  /\ ValidPhase(loc.pod.simSpec.phases[2])
  /\ ~ValidPhase(loc.pod.simSpec.phases[3])
  /\ ret.err = Errorf("Invalid memory value", "1Gx")
  /\ ret.val = <<>>

\* C16: CreatePod, UpdatePod, DeletePod, GetPod and GetPodStatus return an
\* error when the namespace or the name they build the key from is empty,
\* and leave the registry as it was.
C16_EmptyNameIsAnError ==
  [][(/\ ret'.op \in {"CreatePod", "UpdatePod", "DeletePod", "GetPod", "GetPodStatus"}
      /\ (ret'.namespace = "" \/ ret'.name = "")
      /\ ret' # ret)
       => ret'.err # NoError /\ pods' = pods]_vars

\* The sum, over the running records, of the usage of each record's plan at
\* the record's own elapsed time.
UsageNow(m, now) ==
  LET running == RunningIds(m, now)
  IN [r \in {"milliCPU", "memory", "gpu"} |->
        Sum([k \in running |-> resourceUsage(m[k], Elapsed(m[k], now))[r]])]

\* The limits of the containers of a pod, added up.
LimitsOf(pod) ==
  LET containers == Deref(pod).containers
      gpuOf(limits) == IF "nvidia.com/gpu" \in DOMAIN limits
                         THEN Value(limits["nvidia.com/gpu"]) ELSE 0
      cpuOf(limits) == IF "cpu" \in DOMAIN limits
                         THEN MilliValue(limits["cpu"]) ELSE 0
      memoryOf(limits) == IF "memory" \in DOMAIN limits
                            THEN Value(limits["memory"]) ELSE 0
  IN [r \in {"milliCPU", "memory", "gpu"} |->
        Sum([i \in DOMAIN containers |->
               CASE r = "milliCPU" -> cpuOf(containers[i])
                 [] r = "memory" -> memoryOf(containers[i])
                 [] r = "gpu" -> gpuOf(containers[i])])]

\* The sum, over the running records, of the limits of each record's payload.
LimitsNow(m, now) ==
  LET running == RunningIds(m, now)
  IN [r \in {"milliCPU", "memory", "gpu"} |->
        Sum([k \in running |-> LimitsOf(m[k].pod)[r]])]

\* C17 as stated: the demand of the running records that admission adds the
\* candidate's to is the sum of the usage of their plans, each at its own
\* elapsed time.
C17_DemandIsUsageNow == totalResourceReq(pods, clock) = UsageNow(pods, clock)

\* C17 as amended: the demand of the running records that admission adds
\* the candidate's to is the sum of the limits of the containers of their
\* payloads, whatever time has elapsed for a record that still runs.
C17_DemandIsTheLimits ==
  /\ totalResourceReq(pods, clock) = LimitsNow(pods, clock)
  /\ \A now \in clock..(clock + Second) :
       RunningIds(pods, now) = RunningIds(pods, clock)
         => totalResourceReq(pods, now) = totalResourceReq(pods, clock)

\* C17 witness: ns/a, of kind A, is one second into its plan and uses
\* 1000m, and a CreatePod of ns/b of kind B at that time has compared
\* 500m + 1000m with the capacity and accepted it.
C17_Witness ==
  /\ SucceededOn("CreatePod", <<"B", <<"ns", "b">>>>)
  /\ DOMAIN pods = {"ns-a", "ns-b"}
  /\ pods["ns-a"].pod[1] = "A" /\ Accepted(pods["ns-a"])
  /\ pods["ns-b"].pod[1] = "B" /\ Accepted(pods["ns-b"])
  /\ pods["ns-b"].startTime = clock
  /\ Elapsed(pods["ns-a"], clock) = 1
  /\ resourceUsage(pods["ns-a"], 1).milliCPU = 1000
  /\ ret.val.newTotalReq.milliCPU = 1500
  /\ UsageNow(pods, clock)["milliCPU"] = 1500

\* The demand of the first phase of a plan: what the plan uses at the
\* instant of admission (nothing, for the empty plan).
PhaseZero(plan) == IF plan = <<>> THEN ZeroResource ELSE plan[1].resource

\* A step is a CreatePod of pod that returned without an error.
CreatedBy(pod) == SucceededOn("CreatePod", pod)' /\ CreatePod(pod)

\* What a CreatePod step added to the demand of the running records.
CandidateIs(demand) ==
  \A r \in {"milliCPU", "memory", "gpu"} :
    ret'.val.newTotalReq[r] = LimitsNow(pods, clock)[r] + demand[r]

PhaseZeroOf(pod) == PhaseZero(parseSimSpec(Deref(pod)).spec)

\* C18 as stated: the demand CreatePod adds for the candidate is that of the
\* first phase of the candidate's parsed plan.
C18_CandidateIsPhaseZero ==
  [][Succeeded("CreatePod")' =>
       \A pod \in Creatable :
         CreatedBy(pod) => CandidateIs(PhaseZeroOf(pod))]_vars

\* C18 as amended: the demand CreatePod adds for the candidate is the sum of
\* the limits of the containers of the candidate's payload, whatever the
\* phases of its plan.
C18_CandidateIsTheLimits ==
  [][Succeeded("CreatePod")' =>
       \A pod \in Creatable :
         CreatedBy(pod) => CandidateIs(LimitsOf(pod))]_vars

\* C18 witness: a CreatePod of a pod of kind B into the empty registry has
\* compared 1000m, the limits of its two containers, with the capacity; the
\* first phase of its plan uses 500m.
C18_Witness ==
  /\ Succeeded("CreatePod")
  /\ DOMAIN pods = {RetId}
  /\ pods[RetId].pod[1] = "B"
  /\ PhaseZero(pods[RetId].spec).milliCPU = 500
  /\ ret.val.newTotalReq.milliCPU = 1000
  /\ ret.val.podsNum = 0

\* The phase GetPodStatus reports for a record at the time now.
PhaseAt(rec, now) == podStatus(rec, now).phase

\* C19: the clock never goes back; an accepted record keeps its start time,
\* status and plan until a DeletePod or a CreatePod of its id; GetPodStatus
\* reports such a record as Running or Succeeded, never as failed, and once
\* as Succeeded then as Succeeded at every later time.
C19_RunningThenSucceeded ==
  /\ [](\A k \in DOMAIN pods :
          Accepted(pods[k]) =>
            \A n1 \in QueryTimes(pods[k]) :
              /\ PhaseAt(pods[k], n1) \in {"Running", "Succeeded"}
              /\ PhaseAt(pods[k], n1) = "Succeeded" =>
                   \A n2 \in QueryTimes(pods[k]) :
                     n2 >= n1 => PhaseAt(pods[k], n2) = "Succeeded")
  /\ [][/\ clock' >= clock
        /\ \A k \in DOMAIN pods \cap DOMAIN pods' :
             (\/ pods'[k].startTime # pods[k].startTime
              \/ pods'[k].status # pods[k].status
              \/ pods'[k].spec # pods[k].spec)
               => Succeeded("CreatePod")' /\ RetId' = k
        /\ (/\ Succeeded("GetPodStatus") /\ RetId \in DOMAIN pods
            /\ Accepted(pods[RetId])
            /\ Succeeded("GetPodStatus")' /\ RetId' = RetId
            /\ pods' = pods)
             => /\ ret'.val.phase \in {"Running", "Succeeded"}
                /\ ret.val.phase = "Succeeded" => ret'.val.phase = "Succeeded"]_vars

\* C19 witness: GetPodStatus has reported Succeeded for an accepted record
\* with a plan of one second, which it reported Running before, at the
\* second after its start.
C19_Witness ==
  /\ Succeeded("GetPodStatus")
  /\ RetId \in DOMAIN pods
  /\ Accepted(pods[RetId])
  /\ pods[RetId].spec # <<>>
  /\ PhaseAt(pods[RetId], pods[RetId].startTime) = "Running"
  /\ clock >= pods[RetId].startTime + Second
  /\ ret.val.phase = "Succeeded"
  /\ ret.val.startTime = Time(pods[RetId].startTime)

\* ---------------------------------------------------------------- lifecycle
\* The lifecycle of the records under a clock that keeps advancing and a
\* caller that keeps asking for the status of every pod: pods are created
\* up to the time MaxClock, and the clock runs on for the longest plan.

LiveCreateInputs == {"A", "B", "C"} \X GoodNames
LiveDeleteInputs == {"A"} \X GoodNames

\* The seconds of the longest plan among the pods that are created: PodA
\* runs two phases of one second each.
LongestPlan == 2

Horizon == MaxClock + LongestPlan * Second

LiveCreate(pod) == clock <= MaxClock /\ CreatePod(pod)

LiveTick ==
  /\ clock < Horizon
  /\ clock' = clock + 1
  /\ UNCHANGED <<pods, ret, threadVars, nodeVars>>

NextLive ==
  \/ \E pod \in LiveCreateInputs : LiveCreate(pod)
  \/ \E pod \in LiveDeleteInputs : DeletePod(pod)
  \/ \E n \in GoodNames : GetPodStatus(n[1], n[2])
  \/ LiveTick

SpecLive ==
  /\ Init
  /\ [][NextLive]_vars
  /\ WF_vars(LiveTick)
  /\ \A n \in GoodNames : WF_vars(GetPodStatus(n[1], n[2]))

\* GetPodStatus has reported the record of the id k as Succeeded.
ReportedSucceeded(k) ==
  /\ Succeeded("GetPodStatus") /\ RetId = k
  /\ k \in DOMAIN pods
  /\ ret.val.phase = "Succeeded"

\* C20: while the clock advances and the status is asked for, an accepted
\* record is in the end reported Succeeded by GetPodStatus, unless a
\* DeletePod removes it or a CreatePod of its id stores a rejected record.
C20_AcceptedEndsSucceeded ==
  \A n \in GoodNames :
    LET k == WorkloadId(n[1], n[2])
    IN (k \in DOMAIN pods /\ Accepted(pods[k]))
         ~> (\/ ReportedSucceeded(k)
             \/ k \notin DOMAIN pods
             \/ Rejected(pods[k]))

\* C20 witness: a record of kind A, created after the clock had advanced
\* and never overwritten since, has run its two phases and GetPodStatus has
\* reported it Succeeded.
C20_Witness ==
  /\ ReportedSucceeded("ns-a")
  /\ pods["ns-a"].pod[1] = "A"
  /\ Accepted(pods["ns-a"])
  /\ pods["ns-a"].startTime > 0
  /\ clock >= pods["ns-a"].startTime + 2 * Second
  /\ ret.val.containerStatuses[1].state.finishedAt = Time(pods["ns-a"].startTime + 2 * Second)

\* -------------------------------------------------------------- aggregator
\* The handlers, called one at a time, together with the goroutine that
\* NewSimProvider starts: updateNode, which at every tick of its timer sets
\* Provider.totalResourceUsage anew.  An iteration of its loop is one step.

\* podMap.foreach with the visitor of updateNode
RECURSIVE foreachNode(_, _, _, _)
foreachNode(m, keys, now, total) ==
  IF keys = {} THEN total
  ELSE LET key == CHOOSE k \in keys : TRUE
           pod == m[key]
           passedSeconds == passedSecondsAt(now, pod)
       IN foreachNode(m, keys \ {key}, now,
            IF isTerminated(pod, passedSeconds)
              THEN total
              ELSE add(total, resourceUsage(pod, passedSeconds)))

\* The status the line that updateNode has commented out would give.
simPodTerminated == 2

\* updateNode, had the visitor marked the simPods that have terminated in
\* the podMap.
updateNode_marksTerminated ==
  LET now == clock
  IN /\ totalResourceUsage' = foreachNode(pods, DOMAIN pods, now, ZeroResource)
     /\ pods' = [k \in DOMAIN pods |->
                   IF isTerminated(pods[k], passedSecondsAt(now, pods[k]))
                     THEN [pods[k] EXCEPT !.status = simPodTerminated]
                     ELSE pods[k]]
     /\ UNCHANGED <<clock, ret, threadVars, node>>

\* One iteration of the loop of updateNode.
updateNode ==
  LET now == clock
  IN /\ totalResourceUsage' = foreachNode(pods, DOMAIN pods, now, ZeroResource)
     /\ UNCHANGED <<pods, clock, ret, threadVars, node>>

NodeCreateInputs == {"B", "NegGPU"} \X GoodNames
NodeUpdateInputs == {"B"} \X GoodNames
NodeDeleteInputs == {"A"} \X GoodNames

\* The calls of the orchestrator and the passing of time.
NodeCalls ==
  \/ \E pod \in NodeCreateInputs : CreatePod(pod)
  \/ \E pod \in NodeUpdateInputs : UpdatePod(pod)
  \/ \E pod \in NodeDeleteInputs : DeletePod(pod)
  \/ \E n \in GoodNames : GetPodStatus(n[1], n[2])
  \/ Tick

NextNode == NodeCalls \/ updateNode

SpecNode == Init /\ [][NextNode]_vars

\* What the calls read and write: everything but the cached total and the
\* goroutine of updateNode.
callVars == <<pods, clock, ret, threadVars>>

\* C21: with updateNode running at arbitrary points, the registry, the clock
\* and the results of the calls take only the steps the calls themselves
\* take: a step of updateNode leaves them all as they were (it writes the
\* cached total only), and every other step is a call whose outcome is the
\* one it has without updateNode.
C21_AggregatorIsInvisible == [][NodeCalls]_callVars

\* C21 witness: updateNode has cached a total while a pod was running, and
\* afterwards GetPodStatus has reported Succeeded for a record, at a time
\* when no record runs any more: the cached total is stale and has not been
\* consulted.
C21_Witness ==
  /\ totalResourceUsage.milliCPU > 0
  /\ Succeeded("GetPodStatus")
  /\ RetId \in DOMAIN pods
  /\ ret.val.phase = "Succeeded"
  /\ RunningIds(pods, clock) = {}

\* C22: an iteration of updateNode leaves in the cached total the sum of the
\* usage, each at its own elapsed time, of the records that are Accepted and
\* have not terminated at the instant of the tick; records that are Rejected
\* or have terminated add nothing.
C22_AggregateIsRunningUsage ==
  [][updateNode => totalResourceUsage' = UsageNow(pods, clock)]_vars

\* C23: every phase of every plan parseSimSpec returns has seconds > 0.
C23_DurationsArePositive ==
  (ret.op = "parseSimSpec" /\ ret.err = NoError)
    => \A i \in DOMAIN ret.val : ret.val[i].seconds > 0

\* The durations of a plan (all greater than zero) add up to room at most:
\* room is reduced instead of the durations being added up.
RECURSIVE FitsWithin(_, _)
FitsWithin(plan, room) ==
  \/ plan = <<>>
  \/ /\ Head(plan).seconds <= room
     /\ FitsWithin(Tail(plan), room - Head(plan).seconds)

\* C24: for every plan whose durations are int32 values, totalSeconds() is
\* the sum of the durations (an int32 therefore, that the accumulator has
\* reached without wrapping around).
C24_TotalIsTheSum ==
  ret.op = "totalSeconds"
    => /\ FitsWithin(loc.p.spec, MaxInt32)
       /\ ret.val = PlanSeconds(loc.p.spec)

NonNegative(r) == r.milliCPU >= 0 /\ r.memory >= 0 /\ r.gpu >= 0

\* C25: the vectors the provider computes by addition have no negative
\* field in any reachable state: the demand of the running records, the
\* demand a CreatePod has held against the capacity, and the total that
\* updateNode caches.
C25_SumsAreNonNegative ==
  /\ NonNegative(totalResourceReq(pods, clock))
  /\ Succeeded("CreatePod") => NonNegative(ret.val.newTotalReq)
  /\ NonNegative(totalResourceUsage)

\* ------------------------------------------------------------ serial calls
\* CreatePod and DeletePod called one at a time on three names, with the
\* passing of time and without UpdatePod: one name more than the node has
\* pod slots.

SerialNames == GoodNames \cup {<<"ns", "c">>}
SerialCreateInputs == {"A", "B"} \X SerialNames
SerialDeleteInputs == {"A"} \X GoodNames

NextSerial ==
  \/ \E pod \in SerialCreateInputs : CreatePod(pod)
  \/ \E pod \in SerialDeleteInputs : DeletePod(pod)
  \/ Tick

SpecSerial == Init /\ [][NextSerial]_vars

\* C26: with CreatePod called one call at a time and no UpdatePod, at every
\* instant from now on the records that are Accepted and have not terminated
\* number MaxPods at most, and the demands admission attributes to them add
\* up to no more than the capacity in cpu and in memory.
C26_SerialCapacity ==
  \A now \in clock..Horizon :
    /\ Cardinality(RunningIds(pods, now)) <= MaxPods
    /\ CurrentDemand(pods, now)["milliCPU"] <= CapacityCPU
    /\ CurrentDemand(pods, now)["memory"] <= CapacityMemory

\* C26 witness: three pods of kind A are in the registry, two of them run
\* and fill the pod slots of the node, and the third was rejected although
\* the demands of the three fit the node.
C26_Witness ==
  /\ DOMAIN pods = {"ns-a", "ns-b", "ns-c"}
  /\ \A k \in DOMAIN pods : pods[k].pod[1] = "A"
  /\ Cardinality(RunningIds(pods, clock)) = MaxPods
  /\ \E k \in DOMAIN pods : Rejected(pods[k]) /\ pods[k].startTime = clock
  /\ ~ExceedsResources([r \in {"milliCPU", "memory", "gpu"} |->
                          Sum([k \in DOMAIN pods |-> Demand[pods[k].pod][r]])])

\* ------------------------------------------------------- overlapping calls

\* A CreatePod of the key is under way in some goroutine.
CreateInFlight(key) ==
  \E u \in Threads :
    pc[u] \in {"totalResourceReq", "runningPodsNum", "store"} /\ loc[u].key = key

\* C27: an UpdatePod that overlaps a DeletePod of its id does not put the
\* record back: when the store of an UpdatePod finds that the record it
\* loaded has been deleted since, and no CreatePod of the id is under way,
\* the id is not in the registry after the store either.
C27_DeletedStaysDeleted ==
  [][\A t \in Threads :
       (/\ pc[t] = "updateStore" /\ pc'[t] = "idle"
        /\ loc[t].key \notin DOMAIN pods
        /\ ~CreateInFlight(loc[t].key))
         => loc[t].key \notin DOMAIN pods']_vars

\* C28: an UpdatePod that overlaps a CreatePod of its id keeps what the
\* CreatePod has decided: the store of an UpdatePod leaves the record of its
\* key with the start time, the status and the plan the registry holds for
\* the key at that moment, which the last CreatePod of the id has written.
C28_UpdateKeepsTheDecision ==
  [][\A t \in Threads :
       (/\ pc[t] = "updateStore" /\ pc'[t] = "idle"
        /\ loc[t].key \in DOMAIN pods)
         => /\ pods'[loc[t].key].startTime = pods[loc[t].key].startTime
            /\ pods'[loc[t].key].status = pods[loc[t].key].status
            /\ pods'[loc[t].key].spec = pods[loc[t].key].spec]_vars

\* ------------------------------------------------- accounting and status

\* The ids of the records for which GetPodStatus at now reports Running.
ReportedRunning(m, now) == {k \in DOMAIN m : PhaseAt(m[k], now) = "Running"}

\* C29: at any instant now, the records an admission at now counts, in
\* runningPodsNum and in totalResourceReq, are the records that GetPodStatus
\* at now reports as Running: each record on its own is counted exactly when
\* it is reported Running, and the figures of the whole registry are those
\* of the records reported Running.
C29_CountedIffRunning ==
  \A now \in clock..Horizon :
    LET reported == ReportedRunning(pods, now)
    IN /\ \A k \in DOMAIN pods :
            LET one == [j \in {k} |-> pods[k]]
            IN /\ runningPodsNum(one, now) = (IF k \in reported THEN 1 ELSE 0)
               /\ totalResourceReq(one, now) =
                    (IF k \in reported THEN getResourceReq(Deref(pods[k].pod))
                                       ELSE ZeroResource)
       /\ runningPodsNum(pods, now) = Cardinality(reported)
       /\ \A r \in {"milliCPU", "memory", "gpu"} :
            totalResourceReq(pods, now)[r] =
              Sum([k \in reported |-> getResourceReq(Deref(pods[k].pod))[r]])

\* C29 witness: a CreatePod of ns/b has counted no running pod and no
\* demand but its own, at a time when the registry held ns/a, rejected
\* within the time of its plan: GetPodStatus reports ns/a as Failed, not as
\* Running.
C29_Witness ==
  /\ Succeeded("CreatePod") /\ RetId = "ns-b"
  /\ ret.val.podsNum = 0
  /\ pods["ns-b"].startTime = clock
  /\ ret.val.newTotalReq = getResourceReq(Deref(pods["ns-b"].pod))
  /\ "ns-a" \in DOMAIN pods
  /\ Rejected(pods["ns-a"])
  /\ ~Terminated(pods["ns-a"], clock)
  /\ PhaseAt(pods["ns-a"], clock) = "Failed"

\* C30: a CreatePod of an id whose record is Accepted and has not terminated
\* counts that record like any other, its demand in the demand of the
\* running records and itself in their number, decides on these figures,
\* and stores over it a new record with the time of the call as start time,
\* the status just decided, and the payload and plan of the call.
C30_RecreateCountsTheExisting ==
  [][Succeeded("CreatePod")' =>
       \A pod \in Creatable :
         (CreatedBy(pod) /\ IdOf(pod) \in RunningIds(pods, clock)) =>
           LET stored == pods'[IdOf(pod)]
               running == RunningIds(pods, clock)
               projected == ProjectedDemand(pods, clock, pod)
           IN /\ ret'.val.podsNum = Cardinality(running)
              /\ \A r \in {"milliCPU", "memory", "gpu"} :
                   ret'.val.newTotalReq[r] =
                     Sum([k \in running \ {IdOf(pod)} |-> Demand[pods[k].pod][r]])
                       + Demand[pods[IdOf(pod)].pod][r] + Demand[pod][r]
              /\ Rejected(stored) <=>
                   (ExceedsResources(projected) \/ Cardinality(running) >= MaxPods)
              /\ Accepted(stored) \/ Rejected(stored)
              /\ stored.startTime = clock
              /\ stored.pod = pod
              /\ stored.spec = parseSimSpec(Deref(pod)).spec
              /\ DOMAIN pods' = DOMAIN pods]_vars

\* C30 witness: ns/a and ns/b were running and filled the pod slots of the
\* node; a CreatePod of ns/a has counted both, ns/a itself among them, and
\* stored ns/a anew as rejected, although the demand it compared fits the node.
C30_Witness ==
  /\ Succeeded("CreatePod") /\ RetId = "ns-a"
  /\ DOMAIN pods = {"ns-a", "ns-b"}
  /\ ret.val.podsNum = MaxPods
  /\ ~ExceedsResources(ret.val.newTotalReq)
  /\ Rejected(pods["ns-a"])
  /\ pods["ns-a"].startTime = clock
  /\ pods["ns-b"].startTime < clock

\* -------------------------------------------------------------------- keys
\* The calls, one at a time, on pods whose namespaces and names may have a
\* hyphen.

KeyNames == GoodNames \cup HyphenNames
KeyCreateInputs == {"A", "B"} \X KeyNames
KeyUpdateInputs == {"B"} \X KeyNames
KeyDeleteInputs == {"A"} \X KeyNames

NextKeys ==
  \/ \E pod \in KeyCreateInputs : CreatePod(pod)
  \/ \E pod \in KeyUpdateInputs : UpdatePod(pod)
  \/ \E pod \in KeyDeleteInputs : DeletePod(pod)
  \/ \E n \in KeyNames : GetPod(n[1], n[2])

SpecKeys == Init /\ [][NextKeys]_vars

\* The (namespace, name) of the pod of a record.
NamesOf(rec) == rec.pod[2]

\* C31: pods with different (namespace, name) pairs, both non-empty, have
\* different keys, so that a call on one pod neither reads nor overwrites
\* nor deletes the record of another: the pod GetPod returns has the
\* namespace and the name it was called with, and a record is replaced or
\* removed only in a call on its own namespace and name.
C31_KeysAreUnique ==
  /\ []((Succeeded("GetPod") /\ ret.val # NoPod)
          => ret.val[2] = <<ret.namespace, ret.name>>)
  /\ [][\A k \in DOMAIN pods :
          (k \notin DOMAIN pods' \/ pods'[k] # pods[k])
            => <<ret'.namespace, ret'.name>> = NamesOf(pods[k])]_vars

\* -------------------------------------------------------------- traversals
\* The traversals of the registry, step by step, in one goroutine and over
\* a registry that nothing changes meanwhile: podMap.foreach, which hands
\* its visitor to sync.Map.Range, and PodMap.Range of the package simpod,
\* whose body is the call m.Range(f).  The visitor counts its calls per key
\* (loc.visits) and answers whether the traversal is to go on.

\* The frames of PodMap.Range the stack of a goroutine has room for.
MaxDepth == 3

RangeThread == "g1"

\* Registries of accepted pods of kind A under some of three names.
Registries ==
  {[k \in {WorkloadId(n[1], n[2]) : n \in names} |->
      LET n == CHOOSE x \in names : WorkloadId(x[1], x[2]) = k
      IN [pod |-> <<"A", n>>, startTime |-> 0,
          spec |-> parseSimSpec(Deref(<<"A", n>>)).spec, status |-> simPodOk]] :
     names \in SUBSET SerialNames}

InitRange ==
  /\ pods \in Registries
  /\ totalResourceUsage = ZeroResource
  /\ clock = 0
  /\ ret = Returned("none", "", "", NoError, NoValue)
  /\ pc = [t \in Threads |-> "idle"]
  /\ arg = [t \in Threads |-> NoPod]
  /\ loc = [t \in Threads |-> NoLocals]
  /\ node = [pc |-> "wait", now |-> 0]

\* m.foreach(f): sync.Map.Range is about to visit the keys of the map.
foreachCall ==
  /\ pc[RangeThread] = "idle"
  /\ pc' = [pc EXCEPT ![RangeThread] = "foreach"]
  /\ loc' = [loc EXCEPT ![RangeThread] =
               [remaining |-> DOMAIN pods, visits |-> [k \in DOMAIN pods |-> 0]]]
  /\ UNCHANGED <<pods, clock, ret, arg, nodeVars>>

\* sync.Map.Range calls g, and g calls f, for a key it has not visited; it
\* visits no further key once f has returned false.
foreachVisit ==
  /\ pc[RangeThread] = "foreach"
  /\ \E key \in loc[RangeThread].remaining : \E continue \in BOOLEAN :
       loc' = [loc EXCEPT ![RangeThread] =
                 [remaining |-> IF continue THEN loc[RangeThread].remaining \ {key}
                                            ELSE {},
                  visits |-> [loc[RangeThread].visits EXCEPT ![key] = @ + 1]]]
  /\ UNCHANGED <<pods, clock, ret, pc, arg, nodeVars>>

\* sync.Map.Range, and foreach with it, returns.
foreachReturn ==
  /\ pc[RangeThread] = "foreach"
  /\ loc[RangeThread].remaining = {}
  /\ ret' = Returned("foreach", "", "", NoError, loc[RangeThread].visits)
  /\ Return(RangeThread)
  /\ UNCHANGED <<pods, clock, nodeVars>>

\* m.Range(f) of a PodMap: the first frame of PodMap.Range.
RangeCall ==
  /\ pc[RangeThread] = "idle"
  /\ pc' = [pc EXCEPT ![RangeThread] = "Range"]
  /\ loc' = [loc EXCEPT ![RangeThread] =
               [depth |-> 1, visits |-> [k \in DOMAIN pods |-> 0]]]
  /\ UNCHANGED <<pods, clock, ret, arg, nodeVars>>

\* The body of PodMap.Range: m.Range(f), with m a *PodMap, is PodMap.Range
\* again, in a new frame.
RangeRecurse ==
  /\ pc[RangeThread] = "Range"
  /\ loc[RangeThread].depth < MaxDepth
  /\ loc' = [loc EXCEPT ![RangeThread].depth = @ + 1]
  /\ UNCHANGED <<pods, clock, ret, pc, arg, nodeVars>>

\* The stack of the goroutine has reached its limit: the runtime ends the
\* process with the fatal error "stack overflow".
RangeStackOverflow ==
  /\ pc[RangeThread] = "Range"
  /\ loc[RangeThread].depth = MaxDepth
  /\ pc' = [pc EXCEPT ![RangeThread] = "fatal"]
  /\ UNCHANGED <<pods, clock, ret, arg, loc, nodeVars>>

NextRange ==
  \/ foreachCall
  \/ foreachVisit
  \/ foreachReturn
  \/ RangeCall
  \/ RangeRecurse
  \/ RangeStackOverflow

\* A goroutine that can take a step takes it.
SpecRange == InitRange /\ [][NextRange]_vars /\ WF_vars(NextRange)

\* A traversal under way has called the visitor once per key at most.
OncePerKey ==
  pc[RangeThread] \in {"foreach", "Range"}
    => \A k \in DOMAIN loc[RangeThread].visits : loc[RangeThread].visits[k] <= 1

\* C32: a traversal of a registry that nothing changes meanwhile, by
\* podMap.foreach or by PodMap.Range, calls the visitor once per stored key
\* at most and then returns: it does not end in any other way.
C32_TraversalsReturn ==
  /\ OncePerKey
  /\ pc[RangeThread] # "fatal"

====
